---- MODULE Spec2Model ----
(***************************************************************************)
(* Itinerary planner: the generation route and its connectivity probe     *)
(* (src/app/api/plan/route.ts, and the route's earlier version in          *)
(* src/unnamed/part_000), and the page that calls it (src/app/page.tsx).   *)
(*                                                                         *)
(* Texts are sequences of tokens: " " is a whitespace character, every     *)
(* other token stands for a run of non-whitespace characters that is       *)
(* either the text of one JSON value or prose.  The content field of a     *)
(* completion, when present, is a string (route.ts:59, 86 declare it so).  *)
(***************************************************************************)
EXTENDS Integers, Sequences, FiniteSets, TLC

(***************************************************************************)
(* JavaScript values and strings                                           *)
(***************************************************************************)

\* A parsed JSON value: its kind, an identity, and for each of the five
\* fields the shape check reads, what typeof / Array.isArray see there.
JsValue(t, id, destination, startDate, endDate, days, generalTips) ==
    [t |-> t, id |-> id, destination |-> destination, startDate |-> startDate,
     endDate |-> endDate, days |-> days, generalTips |-> generalTips]

JsPrimitive(t, id) ==
    JsValue(t, id, "undefined", "undefined", "undefined", "undefined", "undefined")

JsNull == JsPrimitive("null", "null")

JsUndefined == JsPrimitive("undefined", "undefined")

\* The JSON value each value token is the text of.
JsonValueOf(tok) ==
    CASE tok = "docA" -> JsValue("object", "A", "string", "string", "string", "array", "array")
      [] tok = "docB" -> JsValue("object", "B", "string", "string", "string", "array", "array")
      [] tok = "noTips" -> JsValue("object", "C", "string", "string", "string", "array", "undefined")
      [] tok = "daysObj" -> JsValue("object", "D", "string", "string", "string", "object", "array")
      [] tok = "destNum" -> JsValue("object", "E", "number", "string", "string", "array", "array")
      [] tok = "arr" -> JsPrimitive("array", "F")
      [] tok = "num" -> JsPrimitive("number", "G")
      [] tok = "nul" -> JsNull

JsonTokens == {"docA", "docB", "noTips", "daysObj", "destNum", "arr", "num", "nul"}

IsSpace(tok) == tok = " "

RECURSIVE TrimStart(_)
TrimStart(s) ==
    IF s # <<>> /\ IsSpace(Head(s)) THEN TrimStart(Tail(s)) ELSE s

RECURSIVE TrimEnd(_)
TrimEnd(s) ==
    IF s # <<>> /\ IsSpace(s[Len(s)]) THEN TrimEnd(SubSeq(s, 1, Len(s) - 1)) ELSE s

\* String.prototype.trim
Trim(s) == TrimEnd(TrimStart(s))

\* A faulty JSONparse: whitespace around the value is a SyntaxError too.
JSONparseNoWhitespace(text) ==
    IF Len(text) = 1 /\ text[1] \in JsonTokens
    THEN [ok |-> TRUE, value |-> JsonValueOf(text[1])]
    ELSE [ok |-> FALSE, value |-> JsUndefined]

\* JSON.parse: whitespace around one value; anything else is a SyntaxError.
JSONparse(text) ==
    LET body == Trim(text)
    IN  IF Len(body) = 1 /\ body[1] \in JsonTokens
        THEN [ok |-> TRUE, value |-> JsonValueOf(body[1])]
        ELSE [ok |-> FALSE, value |-> JsUndefined]

\* JSON.stringify of a parsed value: its text, with no whitespace around it.
JSONstringify(x) == <<CHOOSE tok \in JsonTokens : JsonValueOf(tok) = x>>

isRecord(x) == x.t \in {"object", "array"}

isItineraryJson(x) ==
    /\ isRecord(x)
    /\ x.destination = "string"
    /\ x.startDate = "string"
    /\ x.endDate = "string"
    /\ x.days = "array"
    /\ x.generalTips = "array"

\* try { parsed = JSON.parse(text); if (isItineraryJson(parsed)) doc = parsed } catch {}
ParseItinerary(text) ==
    LET p == JSONparse(text)
    IN  IF p.ok /\ isItineraryJson(p.value) THEN p.value ELSE JsNull

\* The two versions of the handler in the repository: src/app/api/plan/route.ts
\* and the earlier src/unnamed/part_000.
Variants == {"route", "part_000"}

\* !x is false.  Of JSON's falsy values (null, false, 0, "") the value tokens
\* hold null only: "num" is the text of a number other than 0.
Truthy(x) == x.t \notin {"null", "undefined"}

\* part_000: try { itineraryJson = JSON.parse(text); } catch {}, and the
\* if (!itineraryJson) that follows: any truthy JSON value is the document.
ParseAny(text) ==
    LET p == JSONparse(text)
    IN  IF p.ok /\ Truthy(p.value) THEN p.value ELSE JsNull

Parse(v, text) == IF v = "part_000" THEN ParseAny(text) ELSE ParseItinerary(text)

(***************************************************************************)
(* The form's strings and the validator (src/app/page.tsx)                 *)
(***************************************************************************)

\* Longest run of whitespace the modelled destinations start or end with.
MaxPad == 1

MinDestLen == 2

MaxDestLen == 60

MaxTripDays == 14

\* Date.getTime() is modelled in seconds (milliseconds / 1000): 32-bit
\* arithmetic holds every date of the model in seconds, not in milliseconds.
SecondsPerDay == 86400

\* A destination is run-length encoded: a sequence of runs of n equal
\* characters, ch = " " for whitespace and "x" for anything else.
Run(ch, n) == [ch |-> ch, n |-> n]

RECURSIVE RunsLength(_)
RunsLength(s) ==
    IF s = <<>> THEN 0 ELSE Head(s).n + RunsLength(Tail(s))

RECURSIVE TrimRunsStart(_)
TrimRunsStart(s) ==
    IF s # <<>> /\ IsSpace(Head(s).ch) THEN TrimRunsStart(Tail(s)) ELSE s

RECURSIVE TrimRunsEnd(_)
TrimRunsEnd(s) ==
    IF s # <<>> /\ IsSpace(s[Len(s)].ch)
    THEN TrimRunsEnd(SubSeq(s, 1, Len(s) - 1))
    ELSE s

TrimRuns(s) == TrimRunsEnd(TrimRunsStart(s))

\* The value of an <input type="date">: "" or "YYYY-MM-DD" (schema.ts:12-13),
\* as the sequence of its UTF-16 code units ("-" is 45, "0".."9" are 48..57).
Digit(n) == 48 + n

DateString(y, m, d) ==
    << Digit(y \div 1000), Digit((y \div 100) % 10), Digit((y \div 10) % 10), Digit(y % 10),
       45, Digit(m \div 10), Digit(m % 10),
       45, Digit(d \div 10), Digit(d % 10) >>

\* a < b on strings: the first differing code unit decides, a proper prefix is less.
RECURSIVE StringLess(_, _)
StringLess(a, b) ==
    IF b = <<>> THEN FALSE
    ELSE IF a = <<>> THEN TRUE
    ELSE IF Head(a) # Head(b) THEN Head(a) < Head(b)
    ELSE StringLess(Tail(a), Tail(b))

DigitsValue(s, from, to) ==
    LET RECURSIVE Val(_, _)
        Val(i, acc) == IF i > to THEN acc ELSE Val(i + 1, acc * 10 + (s[i] - 48))
    IN  Val(from, 0)

DateParts(s) ==
    [y |-> DigitsValue(s, 1, 4), m |-> DigitsValue(s, 6, 7), d |-> DigitsValue(s, 9, 10)]

IsLeapYear(y) == (y % 4 = 0 /\ y % 100 # 0) \/ y % 400 = 0

DaysInMonth(y, m) ==
    IF m = 2 THEN (IF IsLeapYear(y) THEN 29 ELSE 28)
    ELSE IF m \in {4, 6, 9, 11} THEN 30 ELSE 31

RECURSIVE DaysBeforeMonth(_, _)
DaysBeforeMonth(y, m) ==
    IF m = 1 THEN 0 ELSE DaysInMonth(y, m - 1) + DaysBeforeMonth(y, m - 1)

LeapsBefore(y) == (y - 1) \div 4 - (y - 1) \div 100 + (y - 1) \div 400

\* Days from 1970-01-01 to the date.
DayNumber(p) ==
    365 * (p.y - 1970) + (LeapsBefore(p.y) - LeapsBefore(1970))
        + DaysBeforeMonth(p.y, p.m) + (p.d - 1)

\* new Date("YYYY-MM-DD").getTime(): a date-only string is midnight UTC.
GetTime(s) == DayNumber(DateParts(s)) * SecondsPerDay

\* Math.ceil(a / b), b > 0
CeilDiv(a, b) == -((-a) \div b)

null == "null"

\* A faulty validate: the span is the difference in days, the first day not counted.
validateExclusiveSpan(dest0, start0, end0) ==
    LET dest == TrimRuns(dest0)
        len == CeilDiv(GetTime(end0) - GetTime(start0), SecondsPerDay)
    IN  IF RunsLength(dest) < MinDestLen \/ RunsLength(dest) > MaxDestLen
            THEN "Destination must be 2-60 characters."
        ELSE IF start0 = <<>> \/ end0 = <<>>
            THEN "Provide both start and end dates."
        ELSE IF StringLess(end0, start0)
            THEN "End date must be after start date."
        ELSE IF len > MaxTripDays
            THEN "Trip length must be 14 days or less."
        ELSE null

\* The messages are the source's, the en dash of "2-60" written as a hyphen.
validate(dest0, start0, end0) ==
    LET dest == TrimRuns(dest0)
        len == CeilDiv(GetTime(end0) - GetTime(start0), SecondsPerDay) + 1
    IN  IF RunsLength(dest) < MinDestLen \/ RunsLength(dest) > MaxDestLen
            THEN "Destination must be 2-60 characters."
        ELSE IF start0 = <<>> \/ end0 = <<>>
            THEN "Provide both start and end dates."
        ELSE IF StringLess(end0, start0)
            THEN "End date must be after start date."
        ELSE IF len > MaxTripDays
            THEN "Trip length must be 14 days or less."
        ELSE null

Pads == {<<>>} \cup {<<Run(" ", k)>> : k \in 1..MaxPad}

CoreLens == {1, MinDestLen, MaxDestLen, MaxDestLen + 1}

Cores ==
    {<<>>} \cup {<<Run("x", n)>> : n \in CoreLens}
           \cup {<<Run("x", 1), Run(" ", k), Run("x", MaxDestLen - 1 - k)>> : k \in 1..(MaxPad + 1)}

Destinations == {a \o c \o b : a \in Pads, c \in Cores, b \in Pads}

Dates ==
    {<<>>} \cup
    { DateString(p[1], p[2], p[3]) :
        p \in { <<2024, 2, 20>>, <<2024, 2, 29>>, <<2024, 3, 1>>, <<2024, 3, 4>>, <<2024, 3, 5>>,
                <<2024, 12, 25>>, <<2025, 1, 7>>, <<2025, 1, 8>>, <<2025, 5, 1>>, <<2025, 5, 5>> } }

(***************************************************************************)
(* The completion service, as the route sees it                            *)
(***************************************************************************)

Requests == {"r1", "r2"}

Statuses == {200, 401, 429, 500}

\* Response.ok
Ok(status) == status \in 200..299

ErrorDetails == {"", "rate limit exceeded"}

\* choices[0].message.content of a readable envelope: a string, or not there.
Content(text) == [present |-> TRUE, text |-> text]

NoContent == [present |-> FALSE, text |-> <<>>]

JsonTexts ==
    { <<>>, <<"docA">>, <<" ", "docA", " ">>, <<"docB">>, <<"noTips">>, <<"daysObj">>,
      <<"destNum">>, <<"arr">>, <<"nul">>, <<"prose">>, <<" ", "prose", " ">> }

MarkdownTexts == { <<>>, <<" ">>, <<"md">>, <<" ", "md", " ">> }

JsonContents == {NoContent} \cup {Content(t) : t \in JsonTexts}

MarkdownContents == {NoContent} \cup {Content(t) : t \in MarkdownTexts}

\* data?.choices?.[0]?.message?.content ?? ""
ContentOrEmpty(c) == IF c.present THEN c.text ELSE <<>>

AbortError == [name |-> "AbortError", message |-> "This operation was aborted"]

FetchFailed == [name |-> "TypeError", message |-> "fetch failed"]

BodySyntaxError == [name |-> "SyntaxError", message |-> "Unexpected token < in JSON"]

ServerDestinations ==
    { <<>>, <<Run("x", 1)>>, <<Run("x", MinDestLen)>>, <<Run("x", MaxDestLen + 1)>> }

ServerDates == { <<>>, DateString(2024, 2, 20), DateString(2024, 3, 4), DateString(2024, 3, 5) }

ServerParams ==
    [destination : ServerDestinations, startDate : ServerDates, endDate : ServerDates]

NoParams == [destination |-> <<>>, startDate |-> <<>>, endDate |-> <<>>]

(***************************************************************************)
(* State                                                                   *)
(***************************************************************************)

VARIABLES
    pc,             \* per request: where POST stands ("idle": no such request)
    params,         \* per request: the body of the request
    timer,          \* per request: the deadline timer
    aborted,        \* per request: controller.signal.aborted
    r1status,       \* per request: status of the first call's response
    raw1,           \* per request: text of the first completion
    itineraryJson,  \* per request: the document, JsNull while there is none
    calls,          \* per request: the outbound calls issued, in order
    response,       \* per request: what POST returned
    seen,           \* per request: what the service and the timer did, in order
    destination,    \* page: the destination field
    start,          \* page: the start date field
    end,            \* page: the end date field
    note,           \* page: the message under the form
    html,           \* page: the rendered itinerary
    markdown,       \* page: the itinerary's markdown
    days,           \* page: the document whose days are shown, JsNull for none
    loading,        \* page: the loading flag
    cache,          \* localStorage['itinerary:last']
    cpc,            \* page: where onPlan stands
    closure,        \* page: the fields as the running onPlan captured them
    fetched,        \* page: the response onPlan's fetch resolved with
    posts,          \* the bodies POSTed to /api/plan, in order
    plans,          \* how many times onPlan ran
    inflight,       \* how many POSTs of the page are issued and not yet settled
    vResult,        \* what validate() returned ("unset" before it ran)
    variant,        \* which version of the handler is deployed
    probePc,        \* per probe: where GET stands ("idle": no such probe)
    probeCalls,     \* per probe: the outbound calls issued, in order
    probeResponse,  \* per probe: what GET returned
    probeSeen       \* per probe: what the service did

serverVars == <<pc, params, timer, aborted, r1status, raw1, itineraryJson, calls, response, seen>>

formVars == <<destination, start, end>>

pageVars ==
    <<note, html, markdown, days, loading, cache, cpc, closure, fetched, posts, plans, inflight>>

probeVars == <<probePc, probeCalls, probeResponse, probeSeen>>

vars == <<serverVars, formVars, pageVars, vResult, variant, probeVars>>

Undefined == "undefined"

UndefinedText == <<"undefined">>

NoResponse ==
    [sent |-> FALSE, status |-> 0, error |-> Undefined, detail |-> Undefined,
     itineraryJson |-> JsUndefined, itineraryMarkdown |-> UndefinedText, note |-> Undefined]

\* NextResponse.json({ error, detail? }, { status })
ErrorResponse(status, error, detail) ==
    [sent |-> TRUE, status |-> status, error |-> error, detail |-> detail,
     itineraryJson |-> JsUndefined, itineraryMarkdown |-> UndefinedText, note |-> Undefined]

\* NextResponse.json({ itineraryJson, itineraryMarkdown, note? })
ResultResponse(doc, text, msg) ==
    [sent |-> TRUE, status |-> 200, error |-> Undefined, detail |-> Undefined,
     itineraryJson |-> doc, itineraryMarkdown |-> text, note |-> msg]

GroqError(status) ==
    CASE status = 401 -> "Groq 401"
      [] status = 429 -> "Groq 429"
      [] status = 500 -> "Groq 500"
      [] OTHER -> "Groq"

Placeholder == <<"##", " ", "Itinerary", " ", "(Markdown generation failed)">>

NoCache == [set |-> FALSE, destination |-> <<>>, start |-> <<>>, end |-> <<>>, data |-> NoResponse]

Call(kind, p, text, doc) == [kind |-> kind, params |-> p, text |-> text, doc |-> doc]

clearTimeout(t) == IF t = "armed" THEN "cleared" ELSE t

\* History: the request stood at pc[r] when the service (or the timer) did this.
Event(r, what, status, content, detail) ==
    [at |-> pc[r], what |-> what, status |-> status, content |-> content, detail |-> detail]

Observe(r, what) == seen' = [seen EXCEPT ![r] = Append(@, Event(r, what, 0, NoContent, ""))]

ObserveStatus(r, status) ==
    seen' = [seen EXCEPT ![r] = Append(@, Event(r, "status", status, NoContent, ""))]

ObserveBody(r, content) ==
    seen' = [seen EXCEPT ![r] = Append(@, Event(r, "body", 0, content, ""))]

ObserveText(r, detail) ==
    seen' = [seen EXCEPT ![r] = Append(@, Event(r, "text", 0, NoContent, detail))]

(***************************************************************************)
(* POST /api/plan (src/app/api/plan/route.ts)                              *)
(***************************************************************************)

\* !destination || !startDate || !endDate
MissingField(p) == p.destination = <<>> \/ p.startDate = <<>> \/ p.endDate = <<>>

\* return NextResponse.json(...)
Return(r, resp) ==
    /\ response' = [response EXCEPT ![r] = resp]
    /\ pc' = [pc EXCEPT ![r] = "done"]

\* fetch(completions, { ..., signal })
Fetch(r, call) == calls' = [calls EXCEPT ![r] = Append(@, call)]

\* A faulty Catch: an AbortError is reported by its message like any other error.
CatchUnclassified(r, e) ==
    /\ timer' = [timer EXCEPT ![r] = clearTimeout(@)]
    /\ Return(r, ErrorResponse(504, e.message, Undefined))
    /\ UNCHANGED <<params, aborted, r1status, raw1, itineraryJson, calls>>

\* catch (e) { clearTimeout(timeout); ...; return 504 }
Catch(r, e) ==
    /\ timer' = [timer EXCEPT ![r] = clearTimeout(@)]
    /\ Return(r, ErrorResponse(504, IF e.name = "AbortError" THEN "timeout" ELSE e.message,
                               Undefined))
    /\ UNCHANGED <<params, aborted, r1status, raw1, itineraryJson, calls>>

\* lines 22-26
PostBadRequest(r) ==
    /\ pc[r] = "start"
    /\ MissingField(params[r])
    /\ Return(r, ErrorResponse(400, "destination, startDate, endDate required", Undefined))
    /\ UNCHANGED <<params, timer, aborted, r1status, raw1, itineraryJson, calls>>
    /\ UNCHANGED seen

\* lines 28-50: arm the deadline, issue the first call
PostFirstCall(r) ==
    /\ pc[r] = "start"
    /\ ~MissingField(params[r])
    /\ timer' = [timer EXCEPT ![r] = "armed"]
    /\ Fetch(r, Call("initial", params[r], <<>>, JsNull))
    /\ pc' = [pc EXCEPT ![r] = "r1_fetch"]
    /\ UNCHANGED <<params, aborted, r1status, raw1, itineraryJson, response>>
    /\ UNCHANGED seen

\* A faulty DeadlineFires: one controller is shared by all requests.
DeadlineFiresShared(r) ==
    /\ timer[r] = "armed"
    /\ timer' = [timer EXCEPT ![r] = "fired"]
    /\ aborted' = [q \in Requests |-> TRUE]
    /\ UNCHANGED <<pc, params, r1status, raw1, itineraryJson, calls, response>>
    /\ Observe(r, "deadline")

\* line 30: setTimeout(() => controller.abort(), timeoutMs)
DeadlineFires(r) ==
    /\ timer[r] = "armed"
    /\ timer' = [timer EXCEPT ![r] = "fired"]
    /\ aborted' = [aborted EXCEPT ![r] = TRUE]
    /\ UNCHANGED <<pc, params, r1status, raw1, itineraryJson, calls, response>>
    /\ Observe(r, "deadline")

\* line 37 resolves: the first call's status line arrived
R1Responds(r, status) ==
    /\ pc[r] = "r1_fetch"
    /\ ~aborted[r]
    /\ r1status' = [r1status EXCEPT ![r] = status]
    /\ pc' = [pc EXCEPT ![r] = IF Ok(status) THEN "r1_json" ELSE "r1_text"]
    /\ UNCHANGED <<params, timer, aborted, raw1, itineraryJson, calls, response>>
    /\ ObserveStatus(r, status)

\* line 37 rejects: transport error
R1FetchFails(r) ==
    /\ pc[r] = "r1_fetch"
    /\ ~aborted[r]
    /\ Catch(r, FetchFailed)
    /\ Observe(r, "error")

\* line 37 or 58 rejects: the deadline aborted the call or the reading of its body
R1Aborted(r) ==
    /\ pc[r] \in {"r1_fetch", "r1_json"}
    /\ aborted[r]
    /\ Catch(r, AbortError)
    /\ UNCHANGED seen

\* A faulty UpstreamRejected: the detail text is dropped.
UpstreamRejectedNoDetail(r, msg) ==
    /\ timer' = [timer EXCEPT ![r] = clearTimeout(@)]
    /\ Return(r, ErrorResponse(502, GroqError(r1status[r]), ""))
    /\ UNCHANGED <<params, aborted, r1status, raw1, itineraryJson, calls>>

\* lines 52-56
UpstreamRejected(r, msg) ==
    /\ timer' = [timer EXCEPT ![r] = clearTimeout(@)]
    /\ Return(r, ErrorResponse(502, GroqError(r1status[r]), msg))
    /\ UNCHANGED <<params, aborted, r1status, raw1, itineraryJson, calls>>

R1TextRead(r, detail) ==
    /\ pc[r] = "r1_text"
    /\ ~aborted[r]
    /\ UpstreamRejected(r, detail)
    /\ ObserveText(r, detail)

\* r1.text().catch(() => ""): the body could not be read, or the deadline aborted it
R1TextFails(r) ==
    /\ pc[r] = "r1_text"
    /\ UpstreamRejected(r, "")
    /\ Observe(r, IF aborted[r] THEN "aborted" ELSE "unreadable")

\* A faulty Fallback: the raw text is returned untrimmed.
FallbackUntrimmed(r, raw) ==
    /\ timer' = [timer EXCEPT ![r] = clearTimeout(@)]
    /\ Return(r, ResultResponse(JsNull, raw, "JSON parse failed"))

\* A faulty Fallback: the note is left out.
FallbackWithoutNote(r, raw) ==
    /\ timer' = [timer EXCEPT ![r] = clearTimeout(@)]
    /\ Return(r, ResultResponse(JsNull, Trim(raw), Undefined))

\* lines 93-96
Fallback(r, raw) ==
    /\ timer' = [timer EXCEPT ![r] = clearTimeout(@)]
    /\ Return(r, ResultResponse(JsNull, Trim(raw), "JSON parse failed"))

\* lines 99-114: issue the formatted-text call for the document
MarkdownCall(r, doc) ==
    /\ Fetch(r, Call("markdown", NoParams, JSONstringify(doc), doc))
    /\ pc' = [pc EXCEPT ![r] = "r2_fetch"]
    /\ UNCHANGED <<timer, response>>

\* lines 58-82: the first completion's envelope was read
R1JsonRead(r, content) ==
    /\ pc[r] = "r1_json"
    /\ ~aborted[r]
    /\ LET raw == ContentOrEmpty(content)
           doc == Parse(variant, raw)
       IN  /\ raw1' = [raw1 EXCEPT ![r] = raw]
           /\ itineraryJson' = [itineraryJson EXCEPT ![r] = doc]
           /\ IF doc # JsNull
              THEN MarkdownCall(r, doc)
              ELSE /\ Fetch(r, Call("repair", NoParams, raw, JsNull))
                   /\ pc' = [pc EXCEPT ![r] = "repair_fetch"]
                   /\ UNCHANGED <<timer, response>>
    /\ UNCHANGED <<params, aborted, r1status>>
    /\ ObserveBody(r, content)

\* line 58 rejects: the body is no JSON
R1JsonFails(r) ==
    /\ pc[r] = "r1_json"
    /\ ~aborted[r]
    /\ Catch(r, BodySyntaxError)
    /\ Observe(r, "unreadable")

\* lines 84-97 with rRepair null or not ok, or d null
RepairUnusable(r) ==
    /\ Fallback(r, raw1[r])
    /\ UNCHANGED <<params, aborted, r1status, raw1, itineraryJson, calls>>

RepairResponds(r, status) ==
    /\ pc[r] = "repair_fetch"
    /\ ~aborted[r]
    /\ IF Ok(status)
       THEN /\ pc' = [pc EXCEPT ![r] = "repair_json"]
            /\ UNCHANGED <<params, timer, aborted, r1status, raw1, itineraryJson, calls, response>>
       ELSE RepairUnusable(r)
    /\ ObserveStatus(r, status)

\* A faulty RepairFetchFails: a repair call that failed in transport is issued again.
RepairFetchRetried(r) ==
    /\ pc[r] = "repair_fetch"
    /\ ~aborted[r]
    /\ Fetch(r, Call("repair", NoParams, raw1[r], JsNull))
    /\ UNCHANGED <<pc, params, timer, aborted, r1status, raw1, itineraryJson, response>>
    /\ Observe(r, "error")

\* line 82: .catch(() => null) on a transport error
RepairFetchFails(r) ==
    /\ pc[r] = "repair_fetch"
    /\ ~aborted[r]
    /\ RepairUnusable(r)
    /\ Observe(r, "error")

\* A faulty RepairAborted: the AbortError of the repair call reaches the outer catch.
RepairAbortedThrows(r) ==
    /\ pc[r] \in {"repair_fetch", "repair_json"}
    /\ aborted[r]
    /\ Catch(r, AbortError)
    /\ UNCHANGED seen

\* lines 82, 85: both catches swallow the deadline's AbortError
RepairAborted(r) ==
    /\ pc[r] \in {"repair_fetch", "repair_json"}
    /\ aborted[r]
    /\ RepairUnusable(r)
    /\ UNCHANGED seen

\* lines 85-97: the repair completion's envelope was read
RepairJsonRead(r, content) ==
    /\ pc[r] = "repair_json"
    /\ ~aborted[r]
    /\ LET doc == Parse(variant, ContentOrEmpty(content))
       IN  /\ itineraryJson' = [itineraryJson EXCEPT ![r] = doc]
           /\ IF doc # JsNull
              THEN MarkdownCall(r, doc)
              ELSE /\ Fallback(r, raw1[r])
                   /\ UNCHANGED calls
    /\ UNCHANGED <<params, aborted, r1status, raw1>>
    /\ ObserveBody(r, content)

\* line 85: rRepair.json().catch(() => null), then JSON.parse("") throws
RepairJsonFails(r) ==
    /\ pc[r] = "repair_json"
    /\ ~aborted[r]
    /\ RepairUnusable(r)
    /\ Observe(r, "unreadable")

\* A faulty MarkdownUnavailable: the placeholder is returned with the timer left as it is.
MarkdownUnavailableTimerLeft(r) ==
    /\ Return(r, ResultResponse(itineraryJson[r], Placeholder, Undefined))
    /\ UNCHANGED <<params, timer, aborted, r1status, raw1, itineraryJson, calls>>

\* lines 116-126 with r2 null or not ok
MarkdownUnavailable(r) ==
    /\ timer' = [timer EXCEPT ![r] = clearTimeout(@)]
    /\ Return(r, ResultResponse(itineraryJson[r], Placeholder, Undefined))
    /\ UNCHANGED <<params, aborted, r1status, raw1, itineraryJson, calls>>

R2Responds(r, status) ==
    /\ pc[r] = "r2_fetch"
    /\ ~aborted[r]
    /\ IF Ok(status)
       THEN /\ timer' = [timer EXCEPT ![r] = clearTimeout(@)]
            /\ pc' = [pc EXCEPT ![r] = "r2_json"]
            /\ UNCHANGED <<params, aborted, r1status, raw1, itineraryJson, calls, response>>
       ELSE MarkdownUnavailable(r)
    /\ ObserveStatus(r, status)

\* line 114: .catch(() => null) on a transport error
R2FetchFails(r) ==
    /\ pc[r] = "r2_fetch"
    /\ ~aborted[r]
    /\ MarkdownUnavailable(r)
    /\ Observe(r, "error")

\* line 114: .catch(() => null) on the deadline's AbortError
R2Aborted(r) ==
    /\ pc[r] = "r2_fetch"
    /\ aborted[r]
    /\ MarkdownUnavailable(r)
    /\ UNCHANGED seen

\* lines 120-126
MarkdownResult(r, content) ==
    /\ Return(r, ResultResponse(itineraryJson[r], Trim(ContentOrEmpty(content)), Undefined))
    /\ UNCHANGED <<params, timer, aborted, r1status, raw1, itineraryJson, calls>>

R2JsonRead(r, content) ==
    /\ pc[r] = "r2_json"
    /\ MarkdownResult(r, content)
    /\ ObserveBody(r, content)

\* line 120: r2.json().catch(() => null)
R2JsonFails(r) ==
    /\ pc[r] = "r2_json"
    /\ MarkdownResult(r, NoContent)
    /\ Observe(r, "unreadable")

(***************************************************************************)
(* GET /api/plan, the connectivity probe (route.ts:135-145)                *)
(***************************************************************************)

\* How many probes the model runs side by side.
MaxProbes == 2

Probes == 1..MaxProbes

ProbeStatuses == {200, 204, 401, 403, 404, 429, 500, 503}

ModelsCall == [url |-> "https://api.groq.com/openai/v1/models", method |-> "GET"]

NoProbeResponse == [sent |-> FALSE, status |-> 0, ok |-> FALSE, error |-> Undefined]

\* NextResponse.json({ ok })
ProbeResponse(ok) == [sent |-> TRUE, status |-> 200, ok |-> ok, error |-> Undefined]

NothingSeen == [what |-> "nothing", status |-> 0]

\* line 137: fetch(models, { headers, cache: "no-store" })
GetFetch(g) ==
    /\ probePc[g] = "start"
    /\ probeCalls' = [probeCalls EXCEPT ![g] = Append(@, ModelsCall)]
    /\ probePc' = [probePc EXCEPT ![g] = "fetch"]
    /\ UNCHANGED <<probeResponse, probeSeen>>

\* A faulty GetResponds: any answer of the service counts as reachable.
GetRespondsAnyStatus(g, status) ==
    /\ probePc[g] = "fetch"
    /\ probeResponse' = [probeResponse EXCEPT ![g] = ProbeResponse(TRUE)]
    /\ probeSeen' = [probeSeen EXCEPT ![g] = [what |-> "status", status |-> status]]
    /\ probePc' = [probePc EXCEPT ![g] = "done"]
    /\ UNCHANGED probeCalls

\* line 141: return NextResponse.json({ ok: r.ok })
GetResponds(g, status) ==
    /\ probePc[g] = "fetch"
    /\ probeResponse' = [probeResponse EXCEPT ![g] = ProbeResponse(Ok(status))]
    /\ probeSeen' = [probeSeen EXCEPT ![g] = [what |-> "status", status |-> status]]
    /\ probePc' = [probePc EXCEPT ![g] = "done"]
    /\ UNCHANGED probeCalls

\* lines 142-144: catch { return NextResponse.json({ ok: false }) }
GetFetchFails(g) ==
    /\ probePc[g] = "fetch"
    /\ probeResponse' = [probeResponse EXCEPT ![g] = ProbeResponse(FALSE)]
    /\ probeSeen' = [probeSeen EXCEPT ![g] = [what |-> "error", status |-> 0]]
    /\ probePc' = [probePc EXCEPT ![g] = "done"]
    /\ UNCHANGED probeCalls

ProbeInit(active) ==
    /\ probePc = [g \in Probes |-> IF g \in active THEN "start" ELSE "idle"]
    /\ probeCalls = [g \in Probes |-> <<>>]
    /\ probeResponse = [g \in Probes |-> NoProbeResponse]
    /\ probeSeen = [g \in Probes |-> NothingSeen]

ServerInit(active) ==
    /\ pc = [r \in Requests |-> IF r \in active THEN "start" ELSE "idle"]
    /\ params \in [Requests -> ServerParams]
    /\ \A r \in Requests \ active : params[r] = NoParams
    /\ timer = [r \in Requests |-> "unset"]
    /\ aborted = [r \in Requests |-> FALSE]
    /\ r1status = [r \in Requests |-> 0]
    /\ raw1 = [r \in Requests |-> <<>>]
    /\ itineraryJson = [r \in Requests |-> JsNull]
    /\ calls = [r \in Requests |-> <<>>]
    /\ response = [r \in Requests |-> NoResponse]
    /\ seen = [r \in Requests |-> <<>>]

PageInit ==
    /\ note = ""
    /\ html = <<>>
    /\ markdown = <<>>
    /\ days = JsNull
    /\ loading = FALSE
    /\ cache = NoCache
    /\ cpc = "idle"
    /\ closure = NoParams
    /\ fetched = NoResponse
    /\ posts = <<>>
    /\ plans = 0
    /\ inflight = 0

\* One generation request, every upstream behaviour and deadline timing.
Init ==
    /\ ServerInit({"r1"})
    /\ destination = <<>> /\ start = <<>> /\ end = <<>>
    /\ PageInit
    /\ vResult = "unset"
    /\ variant = "route"
    /\ ProbeInit({})

PageIdle == UNCHANGED <<formVars, pageVars, vResult, variant, probeVars>>

Next ==
    \/ \E r \in Requests : PostBadRequest(r) /\ PageIdle
    \/ \E r \in Requests : PostFirstCall(r) /\ PageIdle
    \/ \E r \in Requests : DeadlineFires(r) /\ PageIdle
    \/ \E r \in Requests, status \in Statuses : R1Responds(r, status) /\ PageIdle
    \/ \E r \in Requests : R1FetchFails(r) /\ PageIdle
    \/ \E r \in Requests : R1Aborted(r) /\ PageIdle
    \/ \E r \in Requests, detail \in ErrorDetails : R1TextRead(r, detail) /\ PageIdle
    \/ \E r \in Requests : R1TextFails(r) /\ PageIdle
    \/ \E r \in Requests, content \in JsonContents : R1JsonRead(r, content) /\ PageIdle
    \/ \E r \in Requests : R1JsonFails(r) /\ PageIdle
    \/ \E r \in Requests, status \in Statuses : RepairResponds(r, status) /\ PageIdle
    \/ \E r \in Requests : RepairFetchFails(r) /\ PageIdle
    \/ \E r \in Requests : RepairAborted(r) /\ PageIdle
    \/ \E r \in Requests, content \in JsonContents : RepairJsonRead(r, content) /\ PageIdle
    \/ \E r \in Requests : RepairJsonFails(r) /\ PageIdle
    \/ \E r \in Requests, status \in Statuses : R2Responds(r, status) /\ PageIdle
    \/ \E r \in Requests : R2FetchFails(r) /\ PageIdle
    \/ \E r \in Requests : R2Aborted(r) /\ PageIdle
    \/ \E r \in Requests, content \in MarkdownContents : R2JsonRead(r, content) /\ PageIdle
    \/ \E r \in Requests : R2JsonFails(r) /\ PageIdle

Spec == Init /\ [][Next]_vars

\* One generation request to either version of the handler.
InitVariants ==
    /\ ServerInit({"r1"})
    /\ destination = <<>> /\ start = <<>> /\ end = <<>>
    /\ PageInit
    /\ vResult = "unset"
    /\ variant \in Variants
    /\ ProbeInit({})

SpecVariants == InitVariants /\ [][Next]_vars

\* Two generation requests in the handler at once, their steps interleaved in
\* every order.  Each is given a valid body; the service answers each call
\* with one of fewer statuses and contents than above.
TwoParams ==
    { [destination |-> <<Run("x", MinDestLen)>>, startDate |-> DateString(2024, 2, 20),
       endDate |-> e] : e \in {DateString(2024, 3, 4), DateString(2024, 3, 5)} }

TwoStatuses == {200, 429}

TwoJsonContents ==
    {Content(<<"docA">>), Content(<<"docB">>), Content(<<"noTips">>), Content(<<" ", "prose", " ">>)}

TwoMarkdownContents == {NoContent, Content(<<"md">>)}

InitTwo ==
    /\ ServerInit(Requests)
    /\ params \in [Requests -> TwoParams]
    /\ destination = <<>> /\ start = <<>> /\ end = <<>>
    /\ PageInit
    /\ vResult = "unset"
    /\ variant = "route"
    /\ ProbeInit({})

NextTwo ==
    \/ \E r \in Requests : PostFirstCall(r) /\ PageIdle
    \/ \E r \in Requests : DeadlineFires(r) /\ PageIdle
    \/ \E r \in Requests, status \in TwoStatuses : R1Responds(r, status) /\ PageIdle
    \/ \E r \in Requests : R1FetchFails(r) /\ PageIdle
    \/ \E r \in Requests : R1Aborted(r) /\ PageIdle
    \/ \E r \in Requests : R1TextRead(r, "rate limit exceeded") /\ PageIdle
    \/ \E r \in Requests : R1TextFails(r) /\ PageIdle
    \/ \E r \in Requests, content \in TwoJsonContents : R1JsonRead(r, content) /\ PageIdle
    \/ \E r \in Requests : R1JsonFails(r) /\ PageIdle
    \/ \E r \in Requests, status \in TwoStatuses : RepairResponds(r, status) /\ PageIdle
    \/ \E r \in Requests : RepairFetchFails(r) /\ PageIdle
    \/ \E r \in Requests : RepairAborted(r) /\ PageIdle
    \/ \E r \in Requests, content \in TwoJsonContents : RepairJsonRead(r, content) /\ PageIdle
    \/ \E r \in Requests : RepairJsonFails(r) /\ PageIdle
    \/ \E r \in Requests, status \in TwoStatuses : R2Responds(r, status) /\ PageIdle
    \/ \E r \in Requests : R2FetchFails(r) /\ PageIdle
    \/ \E r \in Requests : R2Aborted(r) /\ PageIdle
    \/ \E r \in Requests, content \in TwoMarkdownContents : R2JsonRead(r, content) /\ PageIdle
    \/ \E r \in Requests : R2JsonFails(r) /\ PageIdle

SpecTwo == InitTwo /\ [][NextTwo]_vars

\* The probes alone, side by side.
InitProbe ==
    /\ ServerInit({})
    /\ destination = <<>> /\ start = <<>> /\ end = <<>>
    /\ PageInit
    /\ vResult = "unset"
    /\ variant = "route"
    /\ ProbeInit(Probes)

ProbeIdle == UNCHANGED <<serverVars, formVars, pageVars, vResult, variant>>

NextProbe ==
    \/ \E g \in Probes : GetFetch(g) /\ ProbeIdle
    \/ \E g \in Probes, status \in ProbeStatuses : GetResponds(g, status) /\ ProbeIdle
    \/ \E g \in Probes : GetFetchFails(g) /\ ProbeIdle

SpecProbe == InitProbe /\ [][NextProbe]_vars

\* What the runtime guarantees of one request: a timer that is armed fires,
\* and the handler runs on whenever it can without the service: from its
\* entry, and from an await that the abort signal has rejected.  Nothing is
\* assumed of the completion service, which may never answer.
Scheduling(r) ==
    /\ WF_vars(DeadlineFires(r) /\ PageIdle)
    /\ WF_vars(PostBadRequest(r) /\ PageIdle)
    /\ WF_vars(PostFirstCall(r) /\ PageIdle)
    /\ WF_vars(R1Aborted(r) /\ PageIdle)
    /\ WF_vars(aborted[r] /\ R1TextFails(r) /\ PageIdle)
    /\ WF_vars(RepairAborted(r) /\ PageIdle)
    /\ WF_vars(R2Aborted(r) /\ PageIdle)

SpecLive == Init /\ [][Next]_vars /\ \A r \in Requests : Scheduling(r)

(***************************************************************************)
(* validate() on its own: every input of the bounded sets, then its result *)
(***************************************************************************)

RunValidate ==
    /\ vResult = "unset"
    /\ vResult' = validate(destination, start, end)
    /\ UNCHANGED <<serverVars, formVars, pageVars, variant, probeVars>>

InitValidate ==
    /\ ServerInit({})
    /\ destination \in Destinations
    /\ start \in Dates
    /\ end \in Dates
    /\ PageInit
    /\ vResult = "unset"
    /\ variant = "route"
    /\ ProbeInit({})

NextValidate == RunValidate

SpecValidate == InitValidate /\ [][NextValidate]_vars

(***************************************************************************)
(* The page's onPlan (src/app/page.tsx)                                    *)
(***************************************************************************)

\* How many times the modelled user presses the plan button.
MaxPlans == 2

PageDestinations ==
    { <<>>, <<Run("x", 1)>>, <<Run(" ", 1), Run("x", MinDestLen), Run(" ", 1)>>,
      <<Run("x", MaxDestLen + 1)>> }

PageDates == { <<>>, DateString(2024, 2, 20), DateString(2024, 3, 5) }

\* What fetch('/api/plan') can resolve with, when its body is JSON.
PageResponses ==
    { ErrorResponse(400, "destination, startDate, endDate required", Undefined),
      ErrorResponse(502, "Groq 429", "rate limit exceeded"),
      ErrorResponse(504, "timeout", Undefined),
      ErrorResponse(504, "fetch failed", Undefined),
      ResultResponse(JsonValueOf("docA"), <<"md">>, Undefined),
      ResultResponse(JsonValueOf("docB"), <<>>, Undefined),
      ResultResponse(JsNull, <<"prose">>, "JSON parse failed") }

\* renderMarkdown of lib/sanitize: nothing for nothing, markup otherwise.
renderMarkdown(text) == IF text = <<>> THEN <<>> ELSE <<"<article>">> \o text

\* msg.includes('fetch')
MentionsFetch(msg) == msg \in {"fetch failed", "Failed to fetch"}

\* line 101
ClearResult ==
    /\ html' = <<>>
    /\ markdown' = <<>>
    /\ days' = JsNull

\* A faulty PlanCatch: the stored last result is dropped on an error.
PlanCatchDropsCache(message) ==
    /\ note' = IF MentionsFetch(message)
               THEN "Can't reach planning service. Check GROQ_API_KEY and network."
               ELSE message
    /\ loading' = FALSE
    /\ cpc' = "idle"
    /\ inflight' = inflight - 1
    /\ cache' = NoCache
    /\ UNCHANGED <<formVars, html, markdown, days, closure, fetched, posts, plans>>

\* lines 113-118: catch (e) { ... setNote(friendly) } finally { setLoading(false) }
PlanCatch(message) ==
    /\ note' = IF MentionsFetch(message)
               THEN "Can't reach planning service. Check GROQ_API_KEY and network."
               ELSE message
    /\ loading' = FALSE
    /\ cpc' = "idle"
    /\ inflight' = inflight - 1
    /\ UNCHANGED <<formVars, html, markdown, days, cache, closure, fetched, posts, plans>>

\* A faulty OnPlan: the POST is issued without asking validate().
OnPlanUnchecked ==
    /\ ~loading
    /\ plans < MaxPlans
    /\ plans' = plans + 1
    /\ ClearResult
    /\ note' = ""
    /\ loading' = TRUE
    /\ closure' = [destination |-> destination, startDate |-> start, endDate |-> end]
    /\ posts' = Append(posts, [destination |-> TrimRuns(destination),
                               startDate |-> start, endDate |-> end])
    /\ inflight' = inflight + 1
    /\ cpc' = "fetch"
    /\ UNCHANGED <<formVars, cache, fetched>>

\* A faulty OnPlan: the button is not disabled while loading.
OnPlanWhileLoading ==
    /\ plans < MaxPlans
    /\ plans' = plans + 1
    /\ ClearResult
    /\ LET err == validate(destination, start, end)
       IN  IF err # null
           THEN /\ note' = err
                /\ loading' = FALSE
                /\ UNCHANGED <<cpc, closure, posts, inflight>>
           ELSE /\ note' = ""
                /\ loading' = TRUE
                /\ closure' = [destination |-> destination, startDate |-> start, endDate |-> end]
                /\ posts' = Append(posts, [destination |-> TrimRuns(destination),
                                           startDate |-> start, endDate |-> end])
                /\ inflight' = inflight + 1
                /\ cpc' = "fetch"
    /\ UNCHANGED <<formVars, cache, fetched>>

\* lines 100-105: the button is disabled while loading
OnPlan ==
    /\ ~loading
    /\ plans < MaxPlans
    /\ plans' = plans + 1
    /\ ClearResult
    /\ LET err == validate(destination, start, end)
       IN  IF err # null
           THEN /\ note' = err
                /\ loading' = FALSE
                /\ UNCHANGED <<cpc, closure, posts, inflight>>
           ELSE /\ note' = ""
                /\ loading' = TRUE
                /\ closure' = [destination |-> destination, startDate |-> start, endDate |-> end]
                /\ posts' = Append(posts, [destination |-> TrimRuns(destination),
                                           startDate |-> start, endDate |-> end])
                /\ inflight' = inflight + 1
                /\ cpc' = "fetch"
    /\ UNCHANGED <<formVars, cache, fetched>>

\* line 105 resolves
PlanFetchResolves(resp) ==
    /\ cpc = "fetch"
    /\ fetched' = resp
    /\ cpc' = "json"
    /\ UNCHANGED <<formVars, note, html, markdown, days, loading, cache, closure, posts, plans,
                   inflight>>

\* line 105 rejects
PlanFetchFails ==
    /\ cpc = "fetch"
    /\ PlanCatch("Failed to fetch")

\* lines 106-112 and the finally
PlanJsonRead ==
    /\ cpc = "json"
    /\ LET data == fetched
       IN  IF ~Ok(data.status) \/ data.error # Undefined
           THEN PlanCatch(IF data.error # Undefined THEN data.error ELSE "Failed")
           ELSE /\ IF data.itineraryJson.days # "undefined"
                   THEN days' = data.itineraryJson /\ UNCHANGED note
                   ELSE /\ note' = IF data.note # Undefined
                                   THEN data.note
                                   ELSE "Structured view unavailable"
                        /\ UNCHANGED days
                /\ markdown' = data.itineraryMarkdown
                /\ html' = renderMarkdown(data.itineraryMarkdown)
                /\ cache' = [set |-> TRUE, destination |-> closure.destination,
                             start |-> closure.startDate, end |-> closure.endDate,
                             data |-> data]
                /\ loading' = FALSE
                /\ cpc' = "idle"
                /\ inflight' = inflight - 1
                /\ UNCHANGED <<formVars, closure, fetched, posts, plans>>

\* line 106 rejects: the body is no JSON
PlanJsonFails ==
    /\ cpc = "json"
    /\ PlanCatch("Unexpected token < in JSON")

SetDestination(d) ==
    /\ destination' = d
    /\ UNCHANGED <<start, end, pageVars>>

SetStart(d) ==
    /\ start' = d
    /\ UNCHANGED <<destination, end, pageVars>>

SetEnd(d) ==
    /\ end' = d
    /\ UNCHANGED <<destination, start, pageVars>>

\* What localStorage['itinerary:last'] can hold when the page is opened:
\* nothing, or what an earlier visit stored.
StoredCaches ==
    { NoCache,
      [set |-> TRUE, destination |-> <<Run(" ", 1), Run("x", MinDestLen), Run(" ", 1)>>,
       start |-> DateString(2024, 2, 20), end |-> DateString(2024, 3, 5),
       data |-> ResultResponse(JsonValueOf("docA"), <<"md">>, Undefined)] }

\* lines 17-48: the initial state, then the mount effect that loads the last
\* result into the fields and the display.
PageMounted(c) ==
    /\ cache = c
    /\ destination = (IF c.set THEN c.destination ELSE <<>>)
    /\ start = (IF c.set THEN c.start ELSE <<>>)
    /\ end = (IF c.set THEN c.end ELSE <<>>)
    /\ markdown = (IF c.set /\ c.data.itineraryMarkdown \notin {<<>>, UndefinedText}
                   THEN c.data.itineraryMarkdown ELSE <<>>)
    /\ html = (IF c.set /\ c.data.itineraryMarkdown \notin {<<>>, UndefinedText}
               THEN renderMarkdown(c.data.itineraryMarkdown) ELSE <<>>)
    /\ days = (IF c.set /\ c.data.itineraryJson.days # "undefined"
               THEN c.data.itineraryJson ELSE JsNull)
    /\ note = ""
    /\ loading = FALSE
    /\ cpc = "idle"
    /\ closure = NoParams
    /\ fetched = NoResponse
    /\ posts = <<>>
    /\ plans = 0
    /\ inflight = 0

InitPage ==
    /\ ServerInit({})
    /\ \E c \in StoredCaches : PageMounted(c)
    /\ vResult = "unset"
    /\ variant = "route"
    /\ ProbeInit({})

NextPage ==
    \/ \E d \in PageDestinations : SetDestination(d) /\ UNCHANGED <<serverVars, vResult, variant, probeVars>>
    \/ \E d \in PageDates : SetStart(d) /\ UNCHANGED <<serverVars, vResult, variant, probeVars>>
    \/ \E d \in PageDates : SetEnd(d) /\ UNCHANGED <<serverVars, vResult, variant, probeVars>>
    \/ OnPlan /\ UNCHANGED <<serverVars, vResult, variant, probeVars>>
    \/ \E resp \in PageResponses : PlanFetchResolves(resp) /\ UNCHANGED <<serverVars, vResult, variant, probeVars>>
    \/ PlanFetchFails /\ UNCHANGED <<serverVars, vResult, variant, probeVars>>
    \/ PlanJsonRead /\ UNCHANGED <<serverVars, vResult, variant, probeVars>>
    \/ PlanJsonFails /\ UNCHANGED <<serverVars, vResult, variant, probeVars>>

SpecPage == InitPage /\ [][NextPage]_vars

(***************************************************************************)
(* What a run of POST was given, read off its history                      *)
(***************************************************************************)

EventsAt(r, at, what) ==
    {i \in 1..Len(seen[r]) : seen[r][i].at = at /\ seen[r][i].what = what}

Saw(r, at, what) == EventsAt(r, at, what) # {}

\* The content of the envelope read while the request stood at `at`.
BodyAt(r, at) == seen[r][CHOOSE i \in EventsAt(r, at, "body") : TRUE].content

\* The status the call awaited at `at` answered with.
StatusAt(r, at) == seen[r][CHOOSE i \in EventsAt(r, at, "status") : TRUE].status

CountCalls(r, kind) == Cardinality({i \in 1..Len(calls[r]) : calls[r][i].kind = kind})

\* The document shape of the specification: three strings and two arrays.
MatchesDocumentShape(v) ==
    /\ v.t = "object"
    /\ v.destination = "string" /\ v.startDate = "string" /\ v.endDate = "string"
    /\ v.days = "array" /\ v.generalTips = "array"

\* The document a completion's content holds, JsNull when it holds none.
DocumentIn(content) ==
    LET toks == {tok \in JsonTokens :
                    /\ content.present
                    /\ \E i \in 1..Len(content.text) :
                          /\ content.text[i] = tok
                          /\ \A j \in 1..Len(content.text) : j # i => content.text[j] = " "}
    IN  IF \E tok \in toks : MatchesDocumentShape(JsonValueOf(tok))
        THEN JsonValueOf(CHOOSE tok \in toks : TRUE)
        ELSE JsNull

FirstContentRead(r) == Saw(r, "r1_json", "body")

FirstDocument(r) == DocumentIn(BodyAt(r, "r1_json"))

RepairedDocument(r) ==
    IF Saw(r, "repair_json", "body") THEN DocumentIn(BodyAt(r, "repair_json")) ELSE JsNull

IsSuccess(resp) == resp.sent /\ resp.status = 200 /\ resp.error = Undefined

IsDegradedFallback(resp, text) ==
    /\ IsSuccess(resp)
    /\ resp.itineraryJson = JsNull
    /\ resp.itineraryMarkdown = text
    /\ resp.note = "JSON parse failed"

(***************************************************************************)
(* Claims about POST                                                       *)
(***************************************************************************)

\* C1: when the first call succeeds and its content is JSON of the document
\* shape, no repair call is ever issued, and whatever the formatted-text call
\* does, the response is a success whose itineraryJson is that document.
C1_ValidFirstDocumentReturned ==
    \A r \in Requests :
        (FirstContentRead(r) /\ FirstDocument(r) # JsNull) =>
            /\ CountCalls(r, "repair") = 0
            /\ response[r].sent =>
                  (IsSuccess(response[r]) /\ response[r].itineraryJson = FirstDocument(r))

\* C1 witness: a padded valid document came first, the deadline aborted the
\* formatted-text call, and the response is out.
C1_Witness ==
    \E r \in Requests :
        /\ FirstContentRead(r) /\ FirstDocument(r) # JsNull
        /\ Len(BodyAt(r, "r1_json").text) > 1
        /\ Saw(r, "r2_fetch", "deadline")
        /\ response[r].sent

\* The outcome C2 states for a first content that holds no document, with
\* `text` as the markdown of the degraded fallback.
C2_Outcome(r, text) ==
    /\ CountCalls(r, "repair") = 1
    /\ response[r].sent =>
          IF RepairedDocument(r) # JsNull
          THEN IsSuccess(response[r]) /\ response[r].itineraryJson = RepairedDocument(r)
          ELSE IsDegradedFallback(response[r], text) /\ CountCalls(r, "markdown") = 0

\* C2 as stated: after a first content that fails parsing or the shape check,
\* exactly one repair call; a valid repaired document is returned; otherwise
\* the fallback carries the original raw first content as itineraryMarkdown.
C2_Original ==
    \A r \in Requests :
        (FirstContentRead(r) /\ FirstDocument(r) = JsNull) =>
            C2_Outcome(r, ContentOrEmpty(BodyAt(r, "r1_json")))

\* C2 as amended: the same, but the fallback's itineraryMarkdown is the raw
\* first content with leading and trailing whitespace trimmed off.
C2_RepairOrTrimmedFallback ==
    \A r \in Requests :
        (FirstContentRead(r) /\ FirstDocument(r) = JsNull) =>
            C2_Outcome(r, Trim(ContentOrEmpty(BodyAt(r, "r1_json"))))

\* C2 witness: whitespace-padded prose came first, the repair call failed in
\* transport, and the fallback is out.
C2_Witness ==
    \E r \in Requests :
        /\ FirstContentRead(r)
        /\ BodyAt(r, "r1_json") = Content(<<" ", "prose", " ">>)
        /\ Saw(r, "repair_fetch", "error")
        /\ response[r].sent /\ response[r].note = "JSON parse failed"

\* The formatted-text call failed: a non-success status, a transport error,
\* the deadline, or a body that cannot be read.
MarkdownCallFailed(r) ==
    \/ Saw(r, "r2_fetch", "status") /\ StatusAt(r, "r2_fetch") \notin 200..299
    \/ Saw(r, "r2_fetch", "error")
    \/ Saw(r, "r2_fetch", "deadline")
    \/ Saw(r, "r2_json", "unreadable")

\* The document the formatted-text call was issued for.
DocumentObtained(r) ==
    IF FirstContentRead(r) /\ FirstDocument(r) # JsNull
    THEN FirstDocument(r)
    ELSE RepairedDocument(r)

\* C3 as stated: with a valid document in hand, every failure of the
\* formatted-text call ends in a success that carries the document and a
\* non-empty placeholder itineraryMarkdown.
C3_Original ==
    \A r \in Requests :
        (response[r].sent /\ MarkdownCallFailed(r)) =>
            /\ IsSuccess(response[r])
            /\ response[r].itineraryJson = DocumentObtained(r)
            /\ response[r].itineraryJson # JsNull
            /\ response[r].itineraryMarkdown # <<>>

DeadlineDuringFirstCall(r) ==
    Saw(r, "r1_fetch", "deadline") \/ Saw(r, "r1_json", "deadline")

\* C4: the deadline firing while the first call is in flight (its fetch is
\* pending, or the body of its success response is being read) gives the
\* timeout response (504, "timeout"): not the 502 error, not the degraded
\* fallback; and the first call stays the only call.
C4_FirstCallTimeout ==
    \A r \in Requests :
        DeadlineDuringFirstCall(r) =>
            /\ Len(calls[r]) = 1
            /\ response[r].sent =>
                  (/\ response[r].status = 504
                   /\ response[r].error = "timeout"
                   /\ response[r].note = Undefined
                   /\ response[r].itineraryJson = JsUndefined)

\* C4 witness: the deadline fired before the first call answered, and the
\* response is out.
C4_Witness ==
    \E r \in Requests : Saw(r, "r1_fetch", "deadline") /\ response[r].sent

DeadlineDuringRepair(r) ==
    Saw(r, "repair_fetch", "deadline") \/ Saw(r, "repair_json", "deadline")

C6_UpstreamRejected ==
    \A r \in Requests :
        (Saw(r, "r1_fetch", "status") /\ StatusAt(r, "r1_fetch") \notin 200..299) =>
            /\ Len(calls[r]) = 1
            /\ response[r].sent =>
                  /\ response[r].status = 502
                  /\ \/ StatusAt(r, "r1_fetch") = 401 /\ response[r].error = "Groq 401"
                     \/ StatusAt(r, "r1_fetch") = 429 /\ response[r].error = "Groq 429"
                     \/ StatusAt(r, "r1_fetch") = 500 /\ response[r].error = "Groq 500"
                  /\ response[r].detail =
                        IF Saw(r, "r1_text", "text")
                        THEN seen[r][CHOOSE i \in EventsAt(r, "r1_text", "text") : TRUE].detail
                        ELSE ""

C6_Witness ==
    \E r \in Requests :
        /\ Saw(r, "r1_fetch", "status") /\ StatusAt(r, "r1_fetch") = 429
        /\ response[r].sent /\ response[r].detail = "rate limit exceeded"

DeadlineFired(r) == \E i \in 1..Len(seen[r]) : seen[r][i].what = "deadline"

\* C7 as stated, even granting that the deadline never fires: after a success
\* status on the first call the request never ends with an error response,
\* whatever the body holds.
C7_Original ==
    \A r \in Requests :
        (/\ Saw(r, "r1_fetch", "status") /\ StatusAt(r, "r1_fetch") \in 200..299
         /\ ~DeadlineFired(r)
         /\ response[r].sent) => IsSuccess(response[r])

\* C8 as stated: a request whose parameters fail validation gets the bad
\* request response and no outbound call is made for it.
C8_Original ==
    \A r \in Requests :
        (pc[r] # "idle"
            /\ validate(params[r].destination, params[r].startDate, params[r].endDate) # null) =>
            /\ calls[r] = <<>>
            /\ response[r].sent => response[r].status = 400

\* The JSON values a content is the text of (none, or one) that are not of
\* the document shape.
MismatchedValuesIn(content) ==
    {JsonValueOf(tok) : tok \in
        {t \in JsonTokens :
            /\ content.present
            /\ ~MatchesDocumentShape(JsonValueOf(t))
            /\ \E i \in 1..Len(content.text) :
                  /\ content.text[i] = t
                  /\ \A j \in 1..Len(content.text) : j # i => content.text[j] = " "}}

\* The value is no document of the request: no formatted-text call was issued
\* for it and the response does not carry it as itineraryJson.
NeverTheDocument(r, value) ==
    /\ \A i \in 1..Len(calls[r]) : calls[r][i].kind = "markdown" => calls[r][i].doc # value
    /\ value # JsNull => response[r].itineraryJson # value

\* C11 as stated, for both versions of the handler: a first content that is
\* JSON of another shape is never the document and a repair call is issued
\* for it; a repaired content that is JSON of another shape is never the
\* document either.
C11_Original ==
    \A r \in Requests :
        /\ FirstContentRead(r) =>
              \A value \in MismatchedValuesIn(BodyAt(r, "r1_json")) :
                  NeverTheDocument(r, value) /\ CountCalls(r, "repair") = 1
        /\ Saw(r, "repair_json", "body") =>
              \A value \in MismatchedValuesIn(BodyAt(r, "repair_json")) :
                  NeverTheDocument(r, value)

\* C12 as stated: with a timer that fires when armed, every request that
\* entered the handler eventually gets its response, whatever the completion
\* service does or fails to do.
C12_Original == \A r \in Requests : (pc[r] = "start") ~> response[r].sent

\* The three shapes of a response.
IsDocumentResult(resp) ==
    /\ resp.status = 200 /\ resp.error = Undefined /\ resp.detail = Undefined
    /\ resp.itineraryJson \notin {JsNull, JsUndefined}
    /\ MatchesDocumentShape(resp.itineraryJson)
    /\ resp.itineraryMarkdown # UndefinedText
    /\ resp.note = Undefined

IsFallbackResult(resp, text) ==
    /\ resp.status = 200 /\ resp.error = Undefined /\ resp.detail = Undefined
    /\ resp.itineraryJson = JsNull
    /\ resp.itineraryMarkdown = text
    /\ resp.note # Undefined

IsErrorResult(resp) ==
    /\ resp.status \notin 200..299
    /\ resp.error # Undefined
    /\ resp.itineraryJson = JsUndefined
    /\ resp.itineraryMarkdown = UndefinedText
    /\ resp.note = Undefined

\* The response is of exactly one of the three shapes, `text` being the
\* itineraryMarkdown of the fallback; and no success is without both a
\* document and a note.
OneOfThreeShapes(resp, text) ==
    /\ Cardinality({shape \in {"document", "fallback", "error"} :
            \/ shape = "document" /\ IsDocumentResult(resp)
            \/ shape = "fallback" /\ IsFallbackResult(resp, text)
            \/ shape = "error" /\ IsErrorResult(resp)}) = 1
    /\ (resp.status \in 200..299 /\ resp.itineraryJson = JsNull) => resp.note # Undefined

\* The text of the first completion as the service sent it ("" before it was read).
FirstText(r) == IF FirstContentRead(r) THEN ContentOrEmpty(BodyAt(r, "r1_json")) ELSE <<>>

\* C13 as stated: every response is a document result, or a fallback whose
\* itineraryMarkdown is the raw text of the first completion, or an error.
C13_Original ==
    \A r \in Requests : response[r].sent => OneOfThreeShapes(response[r], FirstText(r))

\* C13 as amended: every response is a document result (shape-valid document,
\* an itineraryMarkdown, no note), or a fallback (itineraryJson null, the
\* trimmed text of the first completion, a note), or an error (an error string
\* and a non-success status); a success without a document has a note.
C13_ThreeShapes ==
    \A r \in Requests : response[r].sent => OneOfThreeShapes(response[r], Trim(FirstText(r)))

\* C13 witness: padded prose came first, the repaired content was JSON of
\* another shape, and the fallback is out.
C13_Witness ==
    \E r \in Requests :
        /\ FirstContentRead(r) /\ FirstText(r) = <<" ", "prose", " ">>
        /\ Saw(r, "repair_json", "body") /\ BodyAt(r, "repair_json") = Content(<<"daysObj">>)
        /\ response[r].sent

\* The step leaves everything of request r as it was.
StepLeaves(r) ==
    /\ pc'[r] = pc[r] /\ params'[r] = params[r]
    /\ timer'[r] = timer[r] /\ aborted'[r] = aborted[r]
    /\ r1status'[r] = r1status[r] /\ raw1'[r] = raw1[r]
    /\ itineraryJson'[r] = itineraryJson[r]
    /\ calls'[r] = calls[r] /\ response'[r] = response[r]
    /\ seen'[r] = seen[r]

\* Two finished requests that were given the same body, the same answers of
\* the service and the same deadline timing.
SameInputs(a, b) ==
    /\ pc[a] = "done" /\ pc[b] = "done"
    /\ params[a] = params[b]
    /\ seen[a] = seen[b]

\* C14: with two requests in the handler at once, every step (a deadline
\* expiry, an answer or failure of a call, a repair) is a step of one request
\* and leaves the timer, the abort signal, the calls and the result of the
\* other as they were; and under every interleaving the calls and the
\* response of a request are a function of its own body, its own upstream
\* answers and its own deadline.
C14_RequestsIndependent ==
    /\ [][\E q \in Requests : \A r \in Requests \ {q} : StepLeaves(r)]_vars
    /\ [](\A a, b \in Requests :
            SameInputs(a, b) => (calls[a] = calls[b] /\ response[a] = response[b]))

\* C14 witness: r1 has timed out on its first call; r2, past that moment, is
\* in its formatted-text call after a repair, not aborted, its timer armed.
C14_Witness ==
    /\ response["r1"].sent /\ response["r1"].error = "timeout"
    /\ pc["r2"] = "r2_fetch" /\ CountCalls("r2", "repair") = 1
    /\ ~aborted["r2"] /\ timer["r2"] = "armed"

\* C15: the probe issues one call, to the model-listing endpoint, and never a
\* second; its answer is never an error response: it is a 200 with a boolean
\* ok, true exactly when that call answered with a success status, false for
\* a non-success status and for a transport error.
C15_ProbeReportsReachability ==
    \A g \in Probes :
        /\ probeCalls[g] \in {<<>>, <<ModelsCall>>}
        /\ probeResponse[g].sent =>
              /\ probeCalls[g] = <<ModelsCall>>
              /\ probeResponse[g].status = 200 /\ probeResponse[g].error = Undefined
              /\ probeResponse[g].ok \in BOOLEAN
              /\ probeResponse[g].ok <=>
                    (probeSeen[g].what = "status" /\ probeSeen[g].status \in 200..299)

\* C15 witness: one probe answered true after a 204, another false after a
\* 503.
C15_Witness ==
    \E g, h \in Probes :
        /\ probeResponse[g].sent /\ probeResponse[g].ok /\ probeSeen[g].status = 204
        /\ probeResponse[h].sent /\ ~probeResponse[h].ok /\ probeSeen[h].status = 503

\* The kinds of the calls of a request, in the order they were issued.
CallKinds(r) == [i \in 1..Len(calls[r]) |-> calls[r][i].kind]

\* C16: the calls of a request are the initial call, then at most one repair
\* call, then at most one formatted-text call; a repair call follows a success
\* status of the initial call whose content holds no document; the prompt of
\* a formatted-text call embeds a document of the right shape, the one the
\* first or the repaired content held, and the response, once out, returns
\* that same document as itineraryJson.
C16_CallOrder ==
    \A r \in Requests :
        /\ CallKinds(r) \in { <<>>, <<"initial">>, <<"initial", "repair">>,
                               <<"initial", "markdown">>, <<"initial", "repair", "markdown">> }
        /\ CountCalls(r, "repair") > 0 =>
              /\ Saw(r, "r1_fetch", "status") /\ StatusAt(r, "r1_fetch") \in 200..299
              /\ FirstContentRead(r) /\ FirstDocument(r) = JsNull
        /\ \A i \in 1..Len(calls[r]) :
              calls[r][i].kind = "markdown" =>
                  LET embedded == DocumentIn(Content(calls[r][i].text))
                  IN  /\ embedded # JsNull
                      /\ embedded = DocumentObtained(r)
                      /\ response[r].sent =>
                            (IsSuccess(response[r]) /\ response[r].itineraryJson = embedded)

\* C16 witness: all three calls were issued, the repair turned JSON of another
\* shape into a document, and the response is out.
C16_Witness ==
    \E r \in Requests :
        /\ CallKinds(r) = <<"initial", "repair", "markdown">>
        /\ BodyAt(r, "r1_json") = Content(<<"destNum">>)
        /\ RepairedDocument(r) = JsonValueOf("docB")
        /\ response[r].sent

\* C17: no request whose response is out has its timer armed, on any path
\* (the 502 of an upstream rejection, the fallback, the success, the 504 of
\* the catch), and once the response is out the timer and the abort signal of
\* that request never change again.
C17_TimerClearedOnReturn ==
    /\ [](\A r \in Requests : response[r].sent => timer[r] # "armed")
    /\ [][\A r \in Requests :
            response[r].sent => (timer'[r] = timer[r] /\ aborted'[r] = aborted[r])]_vars

\* C17 witness: the formatted-text call failed in transport while the timer
\* was armed; the placeholder response is out and the timer is cleared.
C17_Witness ==
    \E r \in Requests :
        /\ Saw(r, "r2_fetch", "error")
        /\ response[r].sent /\ response[r].itineraryMarkdown = Placeholder
        /\ timer[r] = "cleared" /\ ~aborted[r]

(***************************************************************************)
(* Claims about the page                                                   *)
(***************************************************************************)

\* What the specification calls an invalid trip, on the calendar: the
\* trimmed destination is shorter than 2 or longer than 60 characters, a
\* date is missing, the end day is before the start day, or the days from
\* start to end, both counted, are more than 14.
TrimmedLength(d) == RunsLength(TrimRuns(d))

InclusiveSpan(s, e) == DayNumber(DateParts(e)) - DayNumber(DateParts(s)) + 1

InvalidTrip(d, s, e) ==
    \/ TrimmedLength(d) < 2
    \/ TrimmedLength(d) > 60
    \/ s = <<>>
    \/ e = <<>>
    \/ InclusiveSpan(s, e) < 1
    \/ InclusiveSpan(s, e) > 14

\* C9: validate() returns an error exactly for the invalid trips, and null for
\* every 2-60 character destination with a span of 1 to 14 days.
C9_ValidateDecides ==
    vResult # "unset" => (vResult # null <=> InvalidTrip(destination, start, end))

\* C9 witness: a destination of 60 characters between whitespace and a span
\* of exactly 14 days across the end of a leap February were accepted.
C9_Witness ==
    /\ vResult = null
    /\ TrimmedLength(destination) = 60 /\ RunsLength(destination) > 60
    /\ start = DateString(2024, 2, 20) /\ InclusiveSpan(start, end) = 14

\* C10: a run of onPlan on fields that validate() rejects sets the note to
\* that error and ends without a POST; a POST is only ever issued by a run of
\* onPlan on fields that validate() accepts.
C10_ValidateBeforePost ==
    [][ /\ (plans' # plans /\ validate(destination, start, end) # null) =>
              (note' = validate(destination, start, end) /\ posts' = posts /\ ~loading')
        /\ (posts' # posts) =>
              (plans' # plans /\ validate(destination, start, end) = null) ]_vars

\* C10 witness: onPlan ran on a 15-day trip, the note says so, nothing was POSTed.
C10_Witness ==
    /\ plans = 1
    /\ note = "Trip length must be 14 days or less."
    /\ posts = <<>>

\* C18: the loading flag is true exactly while a run of onPlan is awaiting
\* its POST (the fetch or the reading of its body) and false after every exit;
\* a POST is issued only by a run that starts with the flag false, so never
\* more than one POST of the page is unsettled.
C18_LoadingWhileRunning ==
    /\ [](loading <=> cpc # "idle")
    /\ [](inflight = (IF loading THEN 1 ELSE 0))
    /\ [][(posts' # posts) => (~loading /\ loading' /\ Len(posts') = Len(posts) + 1)]_vars

\* C18 witness: a first run has ended with an error response, a second run
\* is awaiting its POST.
C18_Witness ==
    /\ plans = 2 /\ Len(posts) = 2
    /\ fetched.sent /\ fetched.error = "timeout"
    /\ loading /\ cpc = "fetch" /\ inflight = 1

\* The step ends a run of onPlan in failure: the fields do not validate, the
\* fetch rejected, or the response is not ok or carries an error.
FailedExit ==
    \/ plans' # plans /\ InvalidTrip(destination, start, end)
    \/ cpc = "fetch" /\ cpc' = "idle"
    \/ cpc = "json" /\ cpc' = "idle" /\ (fetched.status \notin 200..299 \/ fetched.error # Undefined)

\* The text the page shows for an error message: the message, or, when
\* `friendly`, the fixed text that replaces a message mentioning fetch.
ShownNote(msg, friendly) ==
    IF friendly /\ msg \in {"fetch failed", "Failed to fetch"}
    THEN "Can't reach planning service. Check GROQ_API_KEY and network."
    ELSE msg

\* The notes a failed exit may leave: the validation message; the message of
\* the rejected fetch; the error of the response, or the message of the
\* SyntaxError when its body is no JSON.
FailureNotes(friendly) ==
    IF plans' # plans THEN {validate(destination, start, end)}
    ELSE IF cpc = "fetch" THEN {ShownNote("Failed to fetch", friendly)}
    ELSE {ShownNote(fetched.error, friendly), "Unexpected token < in JSON"}

\* What C19 says of a step, `friendly` telling how the note shows an error.
CacheFrame(friendly) ==
    /\ (cache' # cache) =>
          /\ cpc = "json" /\ fetched.status \in 200..299 /\ fetched.error = Undefined
          /\ cache'.set /\ cache'.data = fetched
    /\ FailedExit =>
          /\ cache' = cache
          /\ days' = JsNull /\ html' = <<>> /\ markdown' = <<>>
          /\ note' \in FailureNotes(friendly)

====
